---- MODULE Spec2Model ----
(***************************************************************************)
(* EdibleFC Randomiser (src/EdibleFC_randomiser.py).                       *)
(*                                                                         *)
(* Three specifications over the same definitions:                           *)
(*   Spec       the Streamlit session: the roster, the stored teams and    *)
(*              the edit cursor, one action per button.                    *)
(*   SpecAlloc  one call of generate_teams(players, num_teams), statement  *)
(*              by statement, on a roster and a team count drawn from      *)
(*              bounded sets.                                              *)
(*   SpecDet    SpecAlloc followed by a second call on the same input that *)
(*              replays the draws of the first call.                       *)
(* Python lists are sequences; list indices are kept 0-based where the     *)
(* code uses them (team_sizes, target_sizes, edit_index).                  *)
(***************************************************************************)
EXTENDS Integers, Sequences, FiniteSets, TLC

VARIABLES
    players,       \* st.session_state["players"]; the list generate_teams receives
    teams,         \* st.session_state["teams"]
    edit_index,    \* st.session_state["edit_index"]
    edit_sel,      \* ghost: the entry shown on the row whose Edit was clicked
    roster0,       \* ghost: the caller's roster as it was when generate_teams was called
    num_teams,     \* generate_teams: parameter num_teams
    positions,     \* generate_teams: local dict positions
    combined,      \* generate_teams: local list combined
    target_sizes,  \* generate_teams: local list target_sizes (0-based)
    team_sizes,    \* generate_teams: local list team_sizes (0-based)
    teams_d,       \* generate_teams: local defaultdict teams
    placed,        \* generate_teams: number of players of combined already walked
    pc,            \* generate_teams: the statement to run next
    draws,         \* the permutations the random source has produced in this call
    run,           \* SpecDet: 1 in the first call, 2 in the replayed call
    result1        \* SpecDet: what the first call returned

vars == <<players, teams, edit_index, edit_sel, roster0, num_teams, positions,
          combined, target_sizes, team_sizes, teams_d, placed, pc, draws, run, result1>>

sessionVars == <<players, teams, edit_index, edit_sel>>
localVars == <<positions, combined, target_sizes, team_sizes, teams_d, placed>>
callVars == <<roster0, num_teams, positions, combined, target_sizes, team_sizes,
              teams_d, placed, pc, draws, run, result1>>

(***************************************************************************)
(* Bounds of the model.                                                    *)
(***************************************************************************)
MaxPlayers == 3     \* longest roster handed to generate_teams in SpecAlloc
MaxTeams == 3       \* largest team count handed to generate_teams in SpecAlloc
MaxRoster == 2      \* longest roster of the session in Spec
MaxDbRows == 2      \* longest uploaded player database in Spec

NameList == <<"a", "b">>
Names == {NameList[i] : i \in 1..Len(NameList)}

(***************************************************************************)
(* Program constants.                                                      *)
(***************************************************************************)
Positions == <<"GK", "DEF", "MID", "ST">>
PositionSet == {Positions[i] : i \in 1..Len(Positions)}
SliderMin == 2
SliderMax == 6
None == -1
EmptyDict == <<>>

Player == Names \X PositionSet

SeqsUpTo(S, n) == UNION {[1..m -> S] : m \in 0..n}

\* One roster per multiset of entries, its entries in rank order. generate_teams
\* shuffles the list it receives before it reads it (line 113), so every order of
\* every roster up to the bound is walked.
Rank(p) ==
    Len(NameList) * (CHOOSE i \in 1..Len(Positions) : Positions[i] = p[2])
        + (CHOOSE i \in 1..Len(NameList) : NameList[i] = p[1])

Rosters(n) ==
    {r \in SeqsUpTo(Player, n) : \A i \in 1..(Len(r) - 1) : Rank(r[i]) <= Rank(r[i + 1])}

(***************************************************************************)
(* Python helpers.                                                         *)
(***************************************************************************)
\* range(n) as a list: empty when n <= 0
Range(n) == [i \in 1..n |-> i - 1]

\* the orders random.shuffle can leave a list of n items in
Perms(n) == {d \in [1..n -> 1..n] : \A i, j \in 1..n : d[i] = d[j] => i = j}

\* random.shuffle(list) when the random source draws permutation d
Shuffled(list, d) == [i \in 1..Len(list) |-> list[d[i]]]

SeqToBag(s) == [x \in {s[i] : i \in 1..Len(s)} |-> Cardinality({i \in 1..Len(s) : s[i] = x})]

(***************************************************************************)
(* generate_teams, its expressions.                                        *)
(***************************************************************************)
\* for name, pos in players: positions[pos].append((name, pos))
GroupByPosition(list) ==
    [pos \in PositionSet |-> SelectSeq(list, LAMBDA p : p[2] = pos)]

\* for pos_group in positions.values(): random.shuffle(pos_group)
\* (one draw per group, in the dict's order GK, DEF, MID, ST)
GroupDraws(groups) ==
    Perms(Len(groups[Positions[1]])) \X Perms(Len(groups[Positions[2]]))
        \X Perms(Len(groups[Positions[3]])) \X Perms(Len(groups[Positions[4]]))

ShuffleGroups(groups, gd) ==
    [pos \in PositionSet |->
        Shuffled(groups[pos], gd[CHOOSE i \in 1..Len(Positions) : Positions[i] = pos])]

\* for pos in ["GK", "DEF", "MID", "ST"]: combined.extend(positions[pos])
RECURSIVE CombineFrom(_, _)
CombineFrom(groups, i) ==
    IF i > Len(Positions) THEN <<>>
    ELSE groups[Positions[i]] \o CombineFrom(groups, i + 1)

Combine(groups) == CombineFrom(groups, 1)

\* target_sizes = [base_size + (1 if i < remainder else 0) for i in range(num_teams)]
TargetSizesLast(total_players, n) ==
    [i \in 0..(n - 1) |->
        (total_players \div n) + (IF i >= n - (total_players % n) THEN 1 ELSE 0)]

TargetSizes(total_players, n) ==
    [i \in 0..(n - 1) |->
        (total_players \div n) + (IF i < total_players % n THEN 1 ELSE 0)]

\* team_sizes = [0] * num_teams
ZeroSizes(n) == [i \in 0..(n - 1) |-> 0]

\* available_teams = [i for i in range(num_teams) if team_sizes[i] < target_sizes[i]]
AvailableTeamsOffByOne(sizes, targets, n) ==
    SelectSeq(Range(n), LAMBDA i : sizes[i] + 1 < targets[i])

AvailableTeams(sizes, targets, n) ==
    SelectSeq(Range(n), LAMBDA i : sizes[i] < targets[i])

\* min(available_teams, key=lambda x: team_sizes[x]): the first item of least key
RECURSIVE MinFrom(_, _, _, _)
MinFrom(available, sizes, best, i) ==
    IF i > Len(available) THEN best
    ELSE MinFrom(available, sizes,
                 IF sizes[available[i]] < sizes[best] THEN available[i] ELSE best,
                 i + 1)

MinTeamLast(available, sizes) ==
    LET least == {t \in {available[i] : i \in 1..Len(available)} :
                    \A j \in 1..Len(available) : sizes[t] <= sizes[available[j]]}
    IN  CHOOSE t \in least : \A u \in least : u <= t

MinTeam(available, sizes) == MinFrom(available, sizes, available[1], 2)

\* teams[min_team + 1].append(player), teams a defaultdict(list)
AppendDropping(d, min_team, player) ==
    IF (min_team + 1) \in DOMAIN d
    THEN [d EXCEPT ![min_team + 1] = <<player>>]
    ELSE d @@ ((min_team + 1) :> <<player>>)

AppendTo(d, min_team, player) ==
    IF (min_team + 1) \in DOMAIN d
    THEN [d EXCEPT ![min_team + 1] = Append(@, player)]
    ELSE d @@ ((min_team + 1) :> <<player>>)

\* the loop "for player in combined", from player i on, when no step raises
RECURSIVE Walk(_, _, _, _, _, _)
Walk(list, i, d, sizes, targets, n) ==
    IF i > Len(list) THEN d
    ELSE LET m == MinTeam(AvailableTeams(sizes, targets, n), sizes)
         IN  Walk(list, i + 1, AppendTo(d, m, list[i]),
                  [sizes EXCEPT ![m] = @ + 1], targets, n)

\* the value generate_teams returns for a list already shuffled, num_teams >= 1
TeamsOf(list, n, gd) ==
    Walk(Combine(ShuffleGroups(GroupByPosition(list), gd)), 1, EmptyDict,
         ZeroSizes(n), TargetSizes(Len(list), n), n)

(***************************************************************************)
(* generate_teams(players, num_teams), statement by statement.             *)
(***************************************************************************)
\* the draw the random source makes: free in the first call, replayed in the second
DrawFrom(k, choices) == IF run = 1 THEN choices ELSE {draws[k]}

Log(d) == IF run = 1 THEN Append(draws, d) ELSE draws

\* random.shuffle(players): the caller's list, in place
ShuffleAll ==
    /\ pc = "shuffle"
    /\ \E d \in DrawFrom(1, Perms(Len(players))) :
          /\ players' = Shuffled(players, d)
          /\ draws' = Log(d)
    /\ pc' = "group"
    /\ UNCHANGED <<teams, edit_index, edit_sel, roster0, num_teams, positions, combined,
                   target_sizes, team_sizes, teams_d, placed, run, result1>>

GroupStep ==
    /\ pc = "group"
    /\ positions' = GroupByPosition(players)
    /\ pc' = "shuffle_groups"
    /\ UNCHANGED <<sessionVars, roster0, num_teams, combined, target_sizes, team_sizes,
                   teams_d, placed, draws, run, result1>>

ShuffleGroupsStep ==
    /\ pc = "shuffle_groups"
    /\ \E gd \in DrawFrom(2, GroupDraws(positions)) :
          /\ positions' = ShuffleGroups(positions, gd)
          /\ draws' = Log(gd)
    /\ pc' = "combine"
    /\ UNCHANGED <<sessionVars, roster0, num_teams, combined, target_sizes, team_sizes,
                   teams_d, placed, run, result1>>

CombineUngrouped ==
    /\ pc = "combine"
    /\ combined' = players
    /\ pc' = "sizes"
    /\ UNCHANGED <<sessionVars, roster0, num_teams, positions, target_sizes, team_sizes,
                   teams_d, placed, draws, run, result1>>

CombineStep ==
    /\ pc = "combine"
    /\ combined' = Combine(positions)
    /\ pc' = "sizes"
    /\ UNCHANGED <<sessionVars, roster0, num_teams, positions, target_sizes, team_sizes,
                   teams_d, placed, draws, run, result1>>

\* total_players // num_teams raises ZeroDivisionError when num_teams is 0
ComputeTargets ==
    /\ pc = "sizes"
    /\ IF num_teams = 0
       THEN /\ pc' = "raised"
            /\ UNCHANGED <<target_sizes, team_sizes>>
       ELSE /\ target_sizes' = TargetSizes(Len(players), num_teams)
            /\ team_sizes' = ZeroSizes(num_teams)
            /\ pc' = "walk"
    /\ UNCHANGED <<sessionVars, roster0, num_teams, positions, combined, teams_d, placed,
                   draws, run, result1>>

\* one pass of "for player in combined"; min() of an empty list raises ValueError
WalkStepAnyTie ==
    /\ pc = "walk"
    /\ placed < Len(combined)
    /\ LET available == AvailableTeams(team_sizes, target_sizes, num_teams)
       IN  IF available = <<>>
           THEN /\ pc' = "raised"
                /\ UNCHANGED <<team_sizes, teams_d, placed>>
           ELSE \E j \in 1..Len(available) :
                  /\ \A i \in 1..Len(available) :
                        team_sizes[available[j]] <= team_sizes[available[i]]
                  /\ teams_d' = AppendTo(teams_d, available[j], combined[placed + 1])
                  /\ team_sizes' = [team_sizes EXCEPT ![available[j]] = @ + 1]
                  /\ placed' = placed + 1
                  /\ pc' = "walk"
    /\ UNCHANGED <<sessionVars, roster0, num_teams, positions, combined, target_sizes,
                   draws, run, result1>>

WalkStep ==
    /\ pc = "walk"
    /\ placed < Len(combined)
    /\ LET available == AvailableTeams(team_sizes, target_sizes, num_teams)
       IN  IF available = <<>>
           THEN /\ pc' = "raised"
                /\ UNCHANGED <<team_sizes, teams_d, placed>>
           ELSE LET min_team == MinTeam(available, team_sizes)
                IN  /\ teams_d' = AppendTo(teams_d, min_team, combined[placed + 1])
                    /\ team_sizes' = [team_sizes EXCEPT ![min_team] = @ + 1]
                    /\ placed' = placed + 1
                    /\ pc' = "walk"
    /\ UNCHANGED <<sessionVars, roster0, num_teams, positions, combined, target_sizes,
                   draws, run, result1>>

\* return teams; the caller stores it: st.session_state["teams"] = generate_teams(...)
Return ==
    /\ pc = "walk"
    /\ placed = Len(combined)
    /\ teams' = teams_d
    /\ pc' = "done"
    /\ UNCHANGED <<players, edit_index, edit_sel, roster0, num_teams, localVars,
                   draws, run, result1>>

\* a second call on the same roster sequence and team count, the draws replayed
Rerun ==
    /\ pc = "done"
    /\ run = 1
    /\ run' = 2
    /\ result1' = teams
    /\ players' = roster0
    /\ positions' = [pos \in PositionSet |-> <<>>]
    /\ combined' = <<>>
    /\ target_sizes' = <<>>
    /\ team_sizes' = <<>>
    /\ teams_d' = EmptyDict
    /\ placed' = 0
    /\ pc' = "shuffle"
    /\ UNCHANGED <<teams, edit_index, edit_sel, roster0, num_teams, draws>>

TeamCounts == (0 - 1)..MaxTeams

InitAlloc ==
    /\ roster0 \in Rosters(MaxPlayers)
    /\ num_teams \in TeamCounts
    /\ players = roster0
    /\ teams = EmptyDict
    /\ edit_index = None
    /\ edit_sel = <<>>
    /\ positions = [pos \in PositionSet |-> <<>>]
    /\ combined = <<>>
    /\ target_sizes = <<>>
    /\ team_sizes = <<>>
    /\ teams_d = EmptyDict
    /\ placed = 0
    /\ pc = "shuffle"
    /\ draws = <<>>
    /\ run = 1
    /\ result1 = EmptyDict

NextAlloc ==
    \/ ShuffleAll
    \/ GroupStep
    \/ ShuffleGroupsStep
    \/ CombineStep
    \/ ComputeTargets
    \/ WalkStep
    \/ Return

SpecAlloc == InitAlloc /\ [][NextAlloc]_vars

NextDet == NextAlloc \/ Rerun

SpecDet == InitAlloc /\ [][NextDet]_vars

(***************************************************************************)
(* The session: one action per button of the page.                         *)
(***************************************************************************)
\* pd.read_excel(uploaded_file) with the columns Name and Position, the positions
\* among the four the page knows
Databases == UNION {[1..m -> Player] : m \in 1..MaxDbRows}

\* st.sidebar.multiselect over df_db["Name"]: some of the names, each once
Selections(db) ==
    {sel \in SeqsUpTo({db[i][1] : i \in 1..Len(db)}, Len(db)) :
        /\ Len(sel) >= 1
        /\ \A i, j \in 1..Len(sel) : sel[i] = sel[j] => i = j}

\* df_db.loc[df_db["Name"] == name, "Position"].values[0]
PositionOf(db, name) == db[CHOOSE i \in 1..Len(db) :
                             /\ db[i][1] = name
                             /\ \A j \in 1..(i - 1) : db[j][1] # name][2]

\* for name in selected_names: (name, pos), over every database and selection
SelectedEntries ==
    UNION {{[i \in 1..Len(sel) |-> <<sel[i], PositionOf(db, sel[i])>>] :
                sel \in Selections(db)} : db \in Databases}

AddSelectedPlayers ==
    /\ pc = "idle"
    /\ \E added \in SelectedEntries :
          /\ Len(players) + Len(added) <= MaxRoster
          /\ players' = players \o added
    /\ UNCHANGED <<teams, edit_index, edit_sel, callVars>>

AddPlayer ==
    /\ pc = "idle"
    /\ Len(players) < MaxRoster
    /\ \E name \in Names, position \in PositionSet :
          players' = Append(players, <<name, position>>)
    /\ UNCHANGED <<teams, edit_index, edit_sel, callVars>>

ShufflePlayers ==
    /\ pc = "idle"
    /\ players # <<>>
    /\ \E d \in Perms(Len(players)) : players' = Shuffled(players, d)
    /\ UNCHANGED <<teams, edit_index, edit_sel, callVars>>

\* the row i (0-based) of the list shows Save and Cancel when edit_index = i
Save(i) ==
    /\ pc = "idle"
    /\ i \in 0..(Len(players) - 1)
    /\ edit_index = i
    /\ \E new_name \in Names, new_position \in PositionSet :
          players' = [players EXCEPT ![i + 1] = <<new_name, new_position>>]
    /\ edit_index' = None
    /\ edit_sel' = <<>>
    /\ UNCHANGED <<teams, callVars>>

Cancel(i) ==
    /\ pc = "idle"
    /\ i \in 0..(Len(players) - 1)
    /\ edit_index = i
    /\ edit_index' = None
    /\ edit_sel' = <<>>
    /\ UNCHANGED <<players, teams, callVars>>

\* every other row shows Edit and Remove
Edit(i) ==
    /\ pc = "idle"
    /\ i \in 0..(Len(players) - 1)
    /\ edit_index # i
    /\ edit_index' = i
    /\ edit_sel' = players[i + 1]
    /\ UNCHANGED <<players, teams, callVars>>

Remove(i) ==
    /\ pc = "idle"
    /\ i \in 0..(Len(players) - 1)
    /\ edit_index # i
    /\ players' = [k \in 1..(Len(players) - 1) |->
                      IF k < i + 1 THEN players[k] ELSE players[k + 1]]
    /\ UNCHANGED <<teams, edit_index, edit_sel, callVars>>

\* st.session_state["teams"] = generate_teams(st.session_state["players"], num_teams)
GenerateTeams ==
    /\ pc = "idle"
    /\ players # <<>>
    /\ \E n \in SliderMin..SliderMax : \E d \in Perms(Len(players)) :
          LET list == Shuffled(players, d)
          IN  \E gd \in GroupDraws(GroupByPosition(list)) :
                 /\ players' = list
                 /\ teams' = TeamsOf(list, n, gd)
    /\ UNCHANGED <<edit_index, edit_sel, callVars>>

ResetPlayers ==
    /\ pc = "idle"
    /\ players' = <<>>
    /\ teams' = EmptyDict
    /\ edit_index' = None
    /\ edit_sel' = <<>>
    /\ UNCHANGED callVars

Init ==
    /\ players = <<>>
    /\ teams = EmptyDict
    /\ edit_index = None
    /\ edit_sel = <<>>
    /\ roster0 = <<>>
    /\ num_teams = SliderMin
    /\ positions = [pos \in PositionSet |-> <<>>]
    /\ combined = <<>>
    /\ target_sizes = <<>>
    /\ team_sizes = <<>>
    /\ teams_d = EmptyDict
    /\ placed = 0
    /\ pc = "idle"
    /\ draws = <<>>
    /\ run = 1
    /\ result1 = EmptyDict

Next ==
    \/ AddSelectedPlayers
    \/ AddPlayer
    \/ ShufflePlayers
    \/ \E i \in 0..(MaxRoster - 1) : Save(i)
    \/ \E i \in 0..(MaxRoster - 1) : Cancel(i)
    \/ \E i \in 0..(MaxRoster - 1) : Edit(i)
    \/ \E i \in 0..(MaxRoster - 1) : Remove(i)
    \/ GenerateTeams
    \/ ResetPlayers

Spec == Init /\ [][Next]_vars

(***************************************************************************)
(* What the claims speak of.                                               *)
(***************************************************************************)
\* the players of team t in mapping d: d.get(t, [])
TeamOf(d, t) == IF t \in DOMAIN d THEN d[t] ELSE <<>>

RECURSIVE FlattenFrom(_, _, _)
FlattenFrom(d, t, n) ==
    IF t > n THEN <<>> ELSE TeamOf(d, t) \o FlattenFrom(d, t + 1, n)

\* all the players of teams 1..n of d, one after the other
Flatten(d, n) == FlattenFrom(d, 1, n)

CountOf(list, pos) == Cardinality({i \in 1..Len(list) : list[i][2] = pos})

Returned == pc = "done"

\* C1: for every roster and every team count T >= 1 the returned mapping has exactly
\* the keys 1..T; a team that receives no player is present with an empty sequence.
C1_AllTeamsPresent ==
    (Returned /\ num_teams >= 1) => DOMAIN teams = 1..num_teams

\* C2: for T >= 1 the returned teams partition the roster: the multiset union of the
\* teams' players equals the multiset of the roster the call received, and no key
\* outside 1..T holds a player.
C2_Partition ==
    (Returned /\ num_teams >= 1) =>
        /\ DOMAIN teams \subseteq 1..num_teams
        /\ SeqToBag(Flatten(teams, num_teams)) = SeqToBag(roster0)

C2_Witness ==
    /\ Returned
    /\ num_teams = 2
    /\ Len(roster0) = 3
    /\ roster0[1] = roster0[2]
    /\ roster0[3] # roster0[1]

\* C3: for T >= 1 and P players, teams 1..(P mod T) hold (P div T) + 1 players and
\* teams (P mod T)+1..T hold P div T players.
C3_SizesExact ==
    (Returned /\ num_teams >= 1) =>
        \A t \in 1..num_teams :
            Len(TeamOf(teams, t)) =
                (Len(roster0) \div num_teams)
                    + (IF t <= Len(roster0) % num_teams THEN 1 ELSE 0)

C3_Witness ==
    /\ Returned
    /\ num_teams = 2
    /\ Len(roster0) = 3
    /\ Len(TeamOf(teams, 1)) = 2
    /\ Len(TeamOf(teams, 2)) = 1

\* C4: a call does not mutate the caller's roster: after the call the list has the
\* same entries in the same order as before it.
C4_RosterUntouched ==
    Returned => players = roster0

\* C5: for T <= 0 the call signals an error instead of returning, and before any
\* work: the roster keeps its order and no assignment is stored.
C5_NonPositiveRejected ==
    num_teams <= 0 =>
        /\ ~Returned
        /\ players = roster0
        /\ teams = EmptyDict

C7_PositionalBalance ==
    (Returned /\ num_teams >= 1) =>
        /\ \A pos \in PositionSet : \A t, u \in 1..num_teams :
              CountOf(TeamOf(teams, t), pos) <= CountOf(TeamOf(teams, u), pos) + 1
        /\ CountOf(roster0, "GK") <= num_teams =>
              \A t \in 1..num_teams : CountOf(TeamOf(teams, t), "GK") <= 1

C7_Witness ==
    /\ Returned
    /\ num_teams = 2
    /\ Len(players) = 3
    /\ players[1][2] = "GK"
    /\ players[2][2] = "DEF"
    /\ players[3][2] = "GK"

\* C8: every step of the walk appends the current player to a team below its target
\* size whose size is least among such teams, the lowest-numbered one on a tie, at
\* the end of that team's sequence, and leaves every other team as it was.
C8_WalkPolicy ==
    [][(pc = "walk" /\ placed' = placed + 1) =>
          \E c \in DOMAIN team_sizes :
              /\ team_sizes[c] < target_sizes[c]
              /\ \A j \in DOMAIN team_sizes :
                    team_sizes[j] < target_sizes[j] =>
                        \/ team_sizes[c] < team_sizes[j]
                        \/ team_sizes[c] = team_sizes[j] /\ c <= j
              /\ team_sizes' = [team_sizes EXCEPT ![c] = @ + 1]
              /\ DOMAIN teams_d' = DOMAIN teams_d \cup {c + 1}
              /\ teams_d'[c + 1] = Append(TeamOf(teams_d, c + 1), combined[placed + 1])
              /\ \A t \in DOMAIN teams_d \ {c + 1} : teams_d'[t] = teams_d[t]]_vars

C8_Witness ==
    /\ pc = "walk"
    /\ num_teams = 3
    /\ Len(combined) = 3
    /\ placed = 2
    /\ DOMAIN teams_d = {1, 2}
    /\ combined[1] # combined[2]

\* C9: for T >= 1 the walk is plain round-robin: the k-th player (0-based) of the
\* combined sequence goes to team (k mod T) + 1; while a player remains some team is
\* below its target, and the capacity filter does not change the team chosen.
C9_RoundRobin ==
    num_teams >= 1 =>
        /\ pc # "raised"
        /\ pc \in {"walk", "done"} =>
              /\ \A k \in 0..(placed - 1) :
                    /\ (k % num_teams) + 1 \in DOMAIN teams_d
                    /\ Len(teams_d[(k % num_teams) + 1]) >= (k \div num_teams) + 1
                    /\ teams_d[(k % num_teams) + 1][(k \div num_teams) + 1] = combined[k + 1]
              /\ Len(Flatten(teams_d, num_teams)) = placed
              /\ DOMAIN teams_d \subseteq 1..num_teams
        /\ (pc = "walk" /\ placed < Len(combined)) =>
              LET c == placed % num_teams
              IN  /\ team_sizes[c] < target_sizes[c]
                  /\ \A j \in 0..(num_teams - 1) :
                        \/ team_sizes[c] < team_sizes[j]
                        \/ team_sizes[c] = team_sizes[j] /\ c <= j

C9_Witness ==
    /\ pc = "walk"
    /\ num_teams = 2
    /\ Len(combined) = 3
    /\ placed = 2
    /\ team_sizes[1] = target_sizes[1]
    /\ team_sizes[0] < target_sizes[0]

\* C10: while an edit is open, edit_index stays within the roster and keeps denoting
\* the entry whose Edit was clicked.
C10_EditDenotesSelected ==
    edit_index # None =>
        /\ edit_index < Len(players)
        /\ players[edit_index + 1] = edit_sel

====
